---- MODULE Spec2Model ----
(***************************************************************************)
(* Model of the bootstrap-file writer of blockchain_export.cpp             *)
(* (BootstrapFile::store_blockchain_raw and the functions it calls), of    *)
(* main of the export tool, of class checkpoints and of posix::fork.       *)
(*                                                                         *)
(* Bytes are kept run-length encoded: a byte string is a sequence of       *)
(* segments [k, n, v], k the kind of the serialized value, n its length in *)
(* bytes and v its content.  The container file on disk, the put area of   *)
(* the std::ofstream, the put area of the boost::iostreams stream and the  *)
(* vector m_buffer behind it are each such a byte string.                  *)
(*                                                                         *)
(* Spec is the export tool run up to MaxRuns times on one output path,     *)
(* with failing writes, a failing block store and kills of the process.    *)
(* SpecStop evaluates determine_block_stop alone, SpecRead the reader on   *)
(* containers that were cut, SpecEmpty is the export of a store without    *)
(* blocks.  SpecMain follows main from the command line to its exit        *)
(* status, SpecCheckpoints is a checkpoints object under calls of          *)
(* add_checkpoint, check_block and is_alternative_block_allowed, SpecFork  *)
(* is MaxInv invocations of posix::fork interleaved on one PID file.       *)
(***************************************************************************)
EXTENDS Integers, Sequences, FiniteSets, TLC

\* ------------------------------------------------------------------ bounds
MaxN == 2              \* chunking intervals NUM_BLOCKS_PER_CHUNK explored: 1..MaxN
MaxChain == 3          \* chain heights explored: 1..MaxChain
MaxArg == 2            \* --block-start and --block-stop explored: 0..MaxArg
MaxRuns == 2           \* export runs (processes) on the same path
MaxPre == 1            \* blocks held by a container found on disk at the start
FileInfoBytes == 4     \* bytes of a serialized bootstrap::file_info
BlocksInfoBytes == 3   \* bytes of a serialized bootstrap::blocks_info
BlockPackageBytes == 2 \* bytes of a serialized bootstrap::block_package
MaxStopChain == 7      \* chain heights on which determine_block_stop is evaluated alone
MaxStopArg == 7        \* requested stops on which it is evaluated alone
MaxReadBlocks == 3     \* chunks of the containers that are cut and read

\* ------------------------------------------------------- program constants
blockchain_raw_magic == 678565254   \* 0x28721586
header_size == 1024
\* TLC's integers are 32-bit: UINT64_MAX stands for 2^64 - 1, the value an
\* unsigned 64-bit subtraction wraps to; every other quantity of the model
\* stays far below 2^31, so uint32_t and uint64_t arithmetic does not wrap
UINT64_MAX == 2147483647

\* ------------------------------------------------------------ byte strings
U32(x) == [k |-> "u32", n |-> 4, v |-> <<x>>]
FileInfo(major, minor, hsize) == [k |-> "file_info", n |-> FileInfoBytes, v |-> <<major, minor, hsize>>]
BlocksInfo(first, last, pos) == [k |-> "blocks_info", n |-> BlocksInfoBytes, v |-> <<first, last, pos>>]
Padding(c) == [k |-> "pad", n |-> c, v |-> <<>>]
BlockPackage(h) == [k |-> "bp", n |-> BlockPackageBytes, v |-> <<h>>]
Frag(c) == [k |-> "frag", n |-> c, v |-> <<>>]

RECURSIVE ByteLen(_)
ByteLen(s) == IF s = <<>> THEN 0 ELSE Head(s).n + ByteLen(Tail(s))

\* the first p bytes of s; a segment cut in the middle is left as a fragment
RECURSIVE TakeBytes(_, _)
TakeBytes(s, p) ==
  IF p = 0 \/ s = <<>> THEN <<>>
  ELSE IF Head(s).n <= p THEN <<Head(s)>> \o TakeBytes(Tail(s), p - Head(s).n)
  ELSE <<Frag(p)>>

\* the heights of the block packages in s, in order
RECURSIVE Heights(_)
Heights(s) ==
  IF s = <<>> THEN <<>>
  ELSE IF Head(s).k = "bp" THEN <<Head(s).v[1]>> \o Heights(Tail(s))
  ELSE Heights(Tail(s))

Range(a, b) == [i \in 1..(IF b >= a THEN b - a + 1 ELSE 0) |-> a + i - 1]
Max(a, b) == IF a >= b THEN a ELSE b
IsPrefix(s, t) == Len(s) <= Len(t) /\ SubSeq(t, 1, Len(s)) = s

VARIABLES
  N,            \* NUM_BLOCKS_PER_CHUNK of the build
  chain,        \* get_current_blockchain_height() of the source store
  fs,           \* the output path: [exists, data]
  bf,           \* the BootstrapFile object of the running process
  pc,           \* "idle" | "loop" | "returned" | "killed"
  args,         \* [start_block, requested_block_stop]: the arguments still to be
                \* read (requested_block_stop is not read after line 374)
  block_stop,   \* local of store_blockchain_raw
  result,       \* "none" | "true" | "false" | "threw"
  runs,         \* processes started so far
  hist,         \* observations of the current run (not program state)
  origin,       \* how the file at the path came about (not program state)
  rd,           \* what a reader of the file got: [done, ok, blocks]
  mn,           \* main of the export tool: its position, inputs and effects
  cp,           \* the checkpoints object: its two tables and the last call on it
  px            \* the processes of posix::fork invocations and the PID file

vars == <<N, chain, fs, bf, pc, args, block_stop, result, runs, hist, origin, rd, mn, cp, px>>

\* ------------------------------------------------------------ the reader
\* a header in the documented layout: MAGIC | FileInfo | BlocksInfo | padding
HeaderOk(data) ==
  /\ Len(data) >= 4
  /\ data[1] = U32(blockchain_raw_magic)
  /\ data[2].k = "file_info"
  /\ data[2].v[1] = 1
  /\ data[3].k = "blocks_info"
  /\ data[4].k = "pad"
  /\ ByteLen(SubSeq(data, 1, 4)) = data[2].v[3]
  /\ data[2].v[3] = header_size

\* the number of leading segments of s that make up exactly len bytes, -1 if none
PayloadEnd(s, len) ==
  LET J == {j \in 0..Len(s) : ByteLen(SubSeq(s, 1, j)) = len}
  IN IF J = {} THEN -1 ELSE CHOOSE j \in J : \A i \in J : j <= i

\* walk of the length-prefixed chunks of s: a length field cut short at the end
\* of the file, or one that announces more bytes than follow, is a truncated
\* tail; bytes that are out of step with the chunk structure are corruption
RECURSIVE ScanChunks(_)
ScanChunks(s) ==
  IF s = <<>> THEN [blocks |-> <<>>, status |-> "eof", consumed |-> 0]
  ELSE IF Head(s).k = "frag" /\ Tail(s) = <<>>
    THEN [blocks |-> <<>>, status |-> "truncated", consumed |-> 0]
  ELSE IF Head(s).k # "u32" THEN [blocks |-> <<>>, status |-> "corrupt", consumed |-> 0]
  ELSE LET len == Head(s).v[1]
           rest == Tail(s)
           j == PayloadEnd(rest, len)
       IN IF ByteLen(rest) < len THEN [blocks |-> <<>>, status |-> "truncated", consumed |-> 0]
          ELSE IF j = -1 THEN [blocks |-> <<>>, status |-> "corrupt", consumed |-> 0]
          ELSE IF \E i \in 1..j : rest[i].k # "bp" THEN [blocks |-> <<>>, status |-> "corrupt", consumed |-> 0]
          ELSE LET r == ScanChunks(SubSeq(rest, j + 1, Len(rest)))
               IN [blocks |-> Heights(SubSeq(rest, 1, j)) \o r.blocks,
                   status |-> r.status,
                   consumed |-> 4 + len + r.consumed]

\* count_blocks(path, ...): structural scan, tolerant of a truncated tail chunk
count_blocks(data) ==
  IF ~HeaderOk(data) THEN [ok |-> FALSE, num_blocks |-> 0, block_first |-> 0]
  ELSE LET r == ScanChunks(SubSeq(data, 5, Len(data)))
       IN IF r.status = "corrupt" THEN [ok |-> FALSE, num_blocks |-> 0, block_first |-> 0]
          ELSE [ok |-> TRUE, num_blocks |-> Len(r.blocks), block_first |-> data[3].v[1]]

\* read_blocks(): the decoded block sequence, or an error
read_blocks_tolerant(data) ==
  IF ~HeaderOk(data) THEN [ok |-> FALSE, blocks |-> <<>>]
  ELSE [ok |-> TRUE, blocks |-> ScanChunks(SubSeq(data, 5, Len(data))).blocks]

read_blocks(data) ==
  IF ~HeaderOk(data) THEN [ok |-> FALSE, blocks |-> <<>>]
  ELSE LET r == ScanChunks(SubSeq(data, 5, Len(data)))
       IN IF r.status = "eof" THEN [ok |-> TRUE, blocks |-> r.blocks]
          ELSE [ok |-> FALSE, blocks |-> <<>>]

\* a container in the documented layout holding count blocks from first on,
\* one block per chunk
RECURSIVE ChunksOf(_, _)
ChunksOf(first, count) ==
  IF count = 0 THEN <<>>
  ELSE <<U32(BlockPackageBytes), BlockPackage(first)>> \o ChunksOf(first + 1, count - 1)

Container(first, last, count) ==
  <<U32(blockchain_raw_magic), FileInfo(1, 0, header_size), BlocksInfo(first, last, 0),
    Padding(header_size - 4 - FileInfoBytes - BlocksInfoBytes)>> \o ChunksOf(first, count)

\* ------------------------------------------------------------ the writer
\* the std::ofstream m_raw_data_file: bytes reach the disk when it is flushed
\* io: -1 the flush writes everything, p >= 0 the write fails after p bytes
flush_file(b, f, io) ==
  IF b.fail \/ b.raw = <<>> THEN [bf |-> b, fs |-> f]
  ELSE IF io < 0 \/ io >= ByteLen(b.raw)
    THEN [bf |-> [b EXCEPT !.raw = <<>>], fs |-> [f EXCEPT !.data = @ \o b.raw]]
    ELSE [bf |-> [b EXCEPT !.raw = <<>>, !.fail = TRUE],
          fs |-> [f EXCEPT !.data = @ \o TakeBytes(b.raw, io)]]

tellp(b, f) == IF b.fail THEN -1 ELSE ByteLen(f.data) + ByteLen(b.raw)

\* write_binary puts the value into the std::ofstream itself (line 304), not
\* into m_output_stream
write_binary(b, value) ==
  IF b.fail THEN b ELSE [b EXCEPT !.raw = @ \o <<U32(value)>>]

\* m_output_stream is a boost::iostreams::stream over back_insert_device: what
\* is written to it stays in its put area and reaches m_buffer when the stream
\* is flushed (as flush_chunk does in line 308 before it reads m_buffer.size())
write_serialized_object(b, object) ==
  LET b1 == write_binary(b, object.n)
  IN [b1 EXCEPT !.m_output_stream = @ \o <<object>>]

\* lines 286 and 289 read m_buffer without a flush of m_output_stream before
initialize_file_content(b, first_block, last_block) ==
  LET b1 == write_binary(b, blockchain_raw_magic)
      b2 == write_serialized_object(b1, FileInfo(1, 0, header_size))
      b3 == write_serialized_object(b2, BlocksInfo(first_block, last_block, 0))
      padding == IF ByteLen(b3.m_buffer) <= header_size
                 THEN header_size - ByteLen(b3.m_buffer) ELSE UINT64_MAX
      b4 == [b3 EXCEPT !.m_output_stream = @ \o (IF padding = 0 THEN <<>> ELSE <<Padding(padding)>>)]
  IN IF b4.fail THEN b4 ELSE [b4 EXCEPT !.raw = @ \o b4.m_buffer]

open_mode_always_trunc(initialize_file) == "trunc"

open_mode(initialize_file) == IF initialize_file THEN "trunc" ELSE "app"

resume_height_without_first(num_blocks, block_first) == num_blocks

resume_height_of_last_block(num_blocks, block_first) == num_blocks + block_first - 1

resume_height(num_blocks, block_first) == num_blocks + block_first

open_failed_unchecked(b) == FALSE

\* line 267: the test of the stream after open()
open_failed(b) == b.fail

\* env: what the file system answers to the directory checks and the open
open_writer(b, f, start_block, stop_block, env) ==
  IF env \in {"dir_is_file", "mkdir_fails"} THEN [ret |-> "false", bf |-> b, fs |-> f]
  ELSE
    LET initialize_file == ~f.exists
        cb == IF initialize_file THEN [ok |-> TRUE, num_blocks |-> 0, block_first |-> 0]
              ELSE count_blocks(f.data)
    IN IF ~cb.ok THEN [ret |-> "threw", bf |-> b, fs |-> f]
       ELSE
         LET b1 == [b EXCEPT !.m_height = resume_height(cb.num_blocks, cb.block_first),
                             !.fail = (env = "open_fails")]
         IN IF open_failed(b1) THEN [ret |-> "false", bf |-> b1, fs |-> f]
            ELSE
              LET f1 == IF open_mode(initialize_file) = "trunc"
                        THEN [exists |-> TRUE, data |-> <<>>] ELSE f
                  b2 == [b1 EXCEPT !.m_output_stream = <<>>]
              IN [ret |-> "true",
                  bf |-> IF initialize_file THEN initialize_file_content(b2, start_block, stop_block) ELSE b2,
                  fs |-> f1]

\* static_cast<unsigned long>(num_chars_written) != chunk_size: a negative long
\* converts to a value of at least 2^63, which no uint32_t equals
chunk_write_failed_signed_greater(num_chars_written, chunk_size) ==
  num_chars_written > chunk_size

chunk_write_failed(num_chars_written, chunk_size) ==
  IF num_chars_written < 0 THEN TRUE ELSE num_chars_written # chunk_size

\* fault: "ok", or where the write of the chunk fails: "none" (nothing reaches
\* the disk), "length" (the pending bytes up to the length field), "short"
\* (everything but the last byte)
flush_chunk(b, f, fault) ==
  LET b1 == [b EXCEPT !.m_buffer = @ \o b.m_output_stream, !.m_output_stream = <<>>]
      chunk_size == ByteLen(b1.m_buffer)
      b2 == write_binary(b1, chunk_size)
      b3 == [b2 EXCEPT !.m_max_chunk = IF @ < chunk_size THEN chunk_size ELSE @]
      pos_before == tellp(b3, f)
      b4 == IF b3.fail THEN b3 ELSE [b3 EXCEPT !.raw = @ \o b3.m_buffer]
      io == CASE fault = "ok" -> -1
              [] fault = "none" -> 0
              [] fault = "length" -> ByteLen(b3.raw)
              [] fault = "short" -> ByteLen(b4.raw) - 1
      w == flush_file(b4, f, io)
      num_chars_written == tellp(w.bf, w.fs) - pos_before
      threw == chunk_write_failed(num_chars_written, chunk_size)
      obs == [called |-> TRUE, threw |-> threw, chunk_size |-> chunk_size,
              payload |-> Max(0, ByteLen(w.fs.data) - ByteLen(f.data) - ByteLen(b3.raw)),
              buffer |-> b1.m_buffer]
  IN IF threw THEN [threw |-> TRUE, bf |-> w.bf, fs |-> w.fs, obs |-> obs]
     ELSE [threw |-> FALSE,
           bf |-> [w.bf EXCEPT !.m_buffer = <<>>, !.m_output_stream = <<>>],
           fs |-> w.fs, obs |-> obs]

\* a block as the store hands it over: the height in the txin_gen of its miner
\* transaction and its list of transaction hashes; a hash is "tx" (the store has
\* the transaction), "null" (crypto::null_hash) or "unknown" (get_tx throws)
Block(height, tx_hashes) == [height |-> height, tx_hashes |-> tx_hashes]

\* a default-constructed block: no input in miner_tx.vin, no transaction hashes
NoHeight == -1
DefaultBlock == Block(NoHeight, <<>>)

fetch_transactions_unchecked(tx_hashes) == [threw |-> FALSE, txs |-> Len(tx_hashes)]

\* every hash is resolved in order; the first null or unknown hash throws
fetch_transactions(tx_hashes) ==
  IF \E i \in 1..Len(tx_hashes) : tx_hashes[i] # "tx"
  THEN [threw |-> TRUE, txs |-> 0]
  ELSE [threw |-> FALSE, txs |-> Len(tx_hashes)]

\* the package is serialized and written to m_output_stream (line 352) after
\* fetch_transactions has returned (line 343); block_height is not compared
\* with m_cur_height or with the block written before
write_block(b, blk) ==
  LET txs == fetch_transactions(blk.tx_hashes)
  IN IF txs.threw THEN [threw |-> TRUE, bf |-> b]
     ELSE [threw |-> FALSE, bf |-> [b EXCEPT !.m_output_stream = @ \o <<BlockPackage(blk.height)>>]]

close(b, f, io) ==
  IF b.fail THEN [ret |-> "false", bf |-> b, fs |-> f]
  ELSE LET w == flush_file(b, f, io) IN [ret |-> "true", bf |-> w.bf, fs |-> w.fs]

determine_block_stop(requested_block_stop) ==
  LET block_stop0 == IF chain = 0 THEN UINT64_MAX ELSE chain - 1
  IN IF requested_block_stop > 0 /\ requested_block_stop < block_stop0
     THEN requested_block_stop ELSE block_stop0

\* ------------------------------------------------------------ the system
BootstrapFile ==
  [m_height |-> 0, m_cur_height |-> 0, m_buffer |-> <<>>, m_output_stream |-> <<>>,
   raw |-> <<>>, fail |-> FALSE, m_max_chunk |-> 0]

NoFlush == [called |-> FALSE, threw |-> FALSE, chunk_size |-> 0, payload |-> 0, buffer |-> <<>>]

\* pre: the file before the run; env: the file system's answer to open_writer;
\* opened: open_writer returned true; read: the heights asked of the store;
\* appended: the heights embedded in the packages write_block appended;
\* committed: those of them in chunks that flush_chunk completed;
\* lookup_failed, tx_failed: Len(appended) when the store first failed, or -1;
\* closed: close() ran; faults: something was made to fail in this run
NoHist ==
  [pre |-> [exists |-> FALSE, data |-> <<>>], created |-> FALSE, appended |-> <<>>,
   fresh |-> FALSE, flush |-> NoFlush, first |-> 0, faults |-> FALSE,
   env |-> "ok", opened |-> FALSE, read |-> <<>>, committed |-> <<>>,
   lookup_failed |-> -1, tx_failed |-> -1, closed |-> FALSE]

Absent == [exists |-> FALSE, data |-> <<>>]

\* a file at the output path that is not a container
NotAContainer == [exists |-> TRUE, data |-> <<Frag(1)>>]

NoArgs == [start_block |-> 0, requested_block_stop |-> 0]

NoRead == [done |-> FALSE, ok |-> FALSE, blocks |-> <<>>]

\* main: pc "off" (not modelled in this run) | "parse" | "storage" | "pruning"
\* | "export" | "exited"; left_at: the position main returned from;
\* exporter: the object whose store_blockchain_raw was called;
\* path_opened, blocks_read: the output path was created or opened, a block
\* was asked of the store
NoMain ==
  [pc |-> "off", help |-> FALSE, opt_testnet |-> FALSE, opt_stagenet |-> FALSE,
   opt_blocks_dat |-> FALSE, pruning_seed |-> 0, status |-> -1, left_at |-> "none",
   exporter |-> "none", path_opened |-> FALSE, blocks_read |-> FALSE]

\* std::map is modelled as a function on the set of its keys
EmptyMap == [k \in {} |-> 0]

NoCall ==
  [op |-> "none", height |-> 0, hash_str |-> "", difficulty_str |-> "",
   blockchain_height |-> 0, block_height |-> 0, ret |-> FALSE, is_a_checkpoint |-> FALSE,
   recorded |-> FALSE, repeats |-> FALSE]

\* last: the last call and what it returned (recorded: it put its height into
\* m_points; repeats: it has the height, hash string and difficulty string of
\* the call before it, which recorded); before: the tables before the call
\* (last and before are observations, not program state)
NoCheckpoints ==
  [m_points |-> EmptyMap, m_difficulty_points |-> EmptyMap, last |-> NoCall,
   before |-> [m_points |-> EmptyMap, m_difficulty_points |-> EmptyMap]]

\* no posix::fork invocation
NoFork ==
  [use_pidfile |-> FALSE, pidfile |-> [exists |-> FALSE, content |-> 0],
   running |-> {}, next_pid |-> 0, inv |-> <<>>]

\* origin: the file was there (or absent) at the start, or a run created it and
\* returned true under no injected fault (with the range it exported),
\* or it was touched by a run that failed or by more than one run
Found == [kind |-> "found", start_block |-> 0, block_stop |-> 0]
Exported(start, stop) == [kind |-> "exported", start_block |-> start, block_stop |-> stop]
Other == [kind |-> "other", start_block |-> 0, block_stop |-> 0]

Init ==
  /\ N \in 1..MaxN
  /\ chain \in 1..MaxChain
  /\ fs \in {Absent, NotAContainer} \cup
            {[exists |-> TRUE, data |-> Container(p[1], chain - 1, p[2])] :
               p \in {q \in (0..1) \X (0..MaxPre) : q[1] + q[2] <= chain}}
  /\ bf = BootstrapFile
  /\ pc = "idle"
  /\ args = NoArgs
  /\ block_stop = 0
  /\ result = "none"
  /\ runs = 0
  /\ hist = NoHist
  /\ origin = Found
  /\ rd = NoRead
  /\ px = NoFork
  /\ cp = NoCheckpoints
  /\ mn = NoMain

\* store_blockchain_raw, from its entry to the first test of the loop condition
Start(start_block, requested_block_stop, env) ==
  /\ pc = "idle"
  /\ runs < MaxRuns
  /\ LET stop == determine_block_stop(requested_block_stop)
         o == open_writer(BootstrapFile, fs, start_block, stop, env)
     IN /\ runs' = runs + 1
        /\ args' = [NoArgs EXCEPT !.start_block = start_block]
        /\ block_stop' = stop
        /\ fs' = o.fs
        /\ bf' = IF o.ret = "true"
                 THEN [o.bf EXCEPT !.m_cur_height = Max(start_block, o.bf.m_height)]
                 ELSE o.bf
        /\ pc' = IF o.ret = "true" THEN "loop" ELSE "returned"
        /\ result' = IF o.ret = "true" THEN "none" ELSE o.ret
        /\ hist' = [NoHist EXCEPT !.pre = fs, !.created = (o.ret = "true" /\ ~fs.exists),
                                  !.fresh = (o.ret = "true"),
                                  !.first = Max(start_block, o.bf.m_height),
                                  !.faults = (env # "ok"),
                                  !.env = env,
                                  !.opened = (o.ret = "true")]
        /\ UNCHANGED <<N, chain, origin, rd, mn, cp, px>>

\* what the store answers for a height: lookup "found" (the block of that
\* height, with the given transaction hashes), "throws", or "fails"
\* (get_block_by_hash returns false and leaves blk as constructed; its return
\* value is discarded in line 382).  ub: vin.front() of the empty miner_tx.vin
\* of such a block in line 342 either ends the process ("crash") or yields
\* some value and write_block goes on ("proceeds")
TxLists == {<<>>, <<"tx">>, <<"null">>, <<"unknown">>, <<"tx", "null">>}

Stores ==
  {[lookup |-> "found", tx_hashes |-> t, ub |-> "none"] : t \in TxLists} \cup
  {[lookup |-> "throws", tx_hashes |-> <<>>, ub |-> "none"],
   [lookup |-> "fails", tx_hashes |-> <<>>, ub |-> "crash"],
   [lookup |-> "fails", tx_hashes |-> <<>>, ub |-> "proceeds"]}

Honest == [lookup |-> "found", tx_hashes |-> <<"tx">>, ub |-> "none"]

get_block(h, store) == IF store.lookup = "found" THEN Block(h, store.tx_hashes) ELSE DefaultBlock

chunk_due_never(h, n) == FALSE

\* line 384
chunk_due(h, n) == h % n = 0

\* line 388
last_chunk_due(h, n) == h % n # 0

LookupFailed(h) == [h EXCEPT !.faults = TRUE,
                             !.lookup_failed = IF @ = -1 THEN Len(h.appended) ELSE @]

\* a hash of the list is null or not in the store
HasBadHash(tx_hashes) == \E i \in 1..Len(tx_hashes) : tx_hashes[i] \in {"null", "unknown"}

TxFailed(h) == [h EXCEPT !.faults = TRUE,
                         !.tx_failed = IF @ = -1 THEN Len(h.appended) ELSE @]

\* one iteration of the loop of store_blockchain_raw (the store is taken to fail
\* a lookup by its return value at most once in a run)
Iterate(fault, store) ==
  /\ pc = "loop"
  /\ bf.m_cur_height <= block_stop
  /\ store.lookup = "fails" => hist.lookup_failed = -1
  /\ store.lookup = "found" => bf.m_cur_height < chain
  /\ LET h == bf.m_cur_height
         blk == get_block(h, store)
         asked == [hist EXCEPT !.read = @ \o <<h>>]
         seen == IF store.lookup = "fails" THEN LookupFailed(asked)
                 ELSE IF HasBadHash(blk.tx_hashes) THEN TxFailed(asked)
                 ELSE asked
         w == write_block(bf, blk)
         b1 == w.bf
     IN IF store.lookup = "throws"
        THEN /\ fault = "ok"
             /\ pc' = "returned"
             /\ result' = "threw"
             /\ hist' = LookupFailed(asked)
             /\ UNCHANGED <<bf, fs>>
        ELSE IF store.lookup = "fails" /\ store.ub = "crash"
        THEN /\ fault = "ok"
             /\ pc' = "killed"
             /\ result' = "none"
             /\ bf' = BootstrapFile
             /\ hist' = LookupFailed(asked)
             /\ UNCHANGED fs
        ELSE IF w.threw
        THEN /\ fault = "ok"
             /\ pc' = "returned"
             /\ result' = "threw"
             /\ hist' = seen
             /\ UNCHANGED <<bf, fs>>
        ELSE LET appended == [seen EXCEPT !.appended = @ \o <<blk.height>>]
             IN IF chunk_due(h, N)
                THEN LET r == flush_chunk(b1, fs, fault)
                     IN /\ fs' = r.fs
                        /\ hist' = [appended EXCEPT
                                      !.fresh = TRUE, !.flush = r.obs,
                                      !.faults = @ \/ fault # "ok",
                                      !.committed = IF r.threw THEN @ ELSE @ \o Heights(r.obs.buffer)]
                        /\ IF r.threw
                           THEN /\ bf' = r.bf
                                /\ pc' = "returned"
                                /\ result' = "threw"
                           ELSE /\ bf' = [r.bf EXCEPT !.m_cur_height = h + 1]
                                /\ pc' = "loop"
                                /\ result' = result
                ELSE /\ fault = "ok"
                     /\ bf' = [b1 EXCEPT !.m_cur_height = h + 1]
                     /\ hist' = [appended EXCEPT !.fresh = FALSE]
                     /\ UNCHANGED <<fs, pc, result>>
  /\ UNCHANGED <<N, chain, args, block_stop, runs, origin, rd, mn, cp, px>>

\* store_blockchain_raw after the loop: the last flush_chunk and close()
Finish(fault, io) ==
  /\ pc = "loop"
  /\ bf.m_cur_height > block_stop
  /\ pc' = "returned"
  /\ IF last_chunk_due(bf.m_cur_height, N)
     THEN LET r == flush_chunk(bf, fs, fault)
              c == close(r.bf, r.fs, io)
          IN IF r.threw
             THEN /\ io = -1
                  /\ bf' = r.bf
                  /\ fs' = r.fs
                  /\ result' = "threw"
                  /\ hist' = [hist EXCEPT !.fresh = TRUE, !.flush = r.obs, !.faults = TRUE]
             ELSE /\ bf' = c.bf
                  /\ fs' = c.fs
                  /\ result' = c.ret
                  /\ hist' = [hist EXCEPT !.fresh = TRUE, !.flush = r.obs,
                                          !.faults = @ \/ fault # "ok" \/ io # -1,
                                          !.committed = @ \o Heights(r.obs.buffer),
                                          !.closed = TRUE]
     ELSE LET c == close(bf, fs, io)
          IN /\ fault = "ok"
             /\ bf' = c.bf
             /\ fs' = c.fs
             /\ result' = c.ret
             /\ hist' = [hist EXCEPT !.faults = @ \/ io # -1, !.closed = TRUE]
  /\ UNCHANGED <<N, chain, args, block_stop, runs, origin, rd, mn, cp, px>>

\* the process is killed: nothing of its memory (the BootstrapFile object, the
\* put area of the std::ofstream) reaches the disk.  fault "ok": the kill comes
\* between two steps; otherwise it comes inside the flush_chunk of the next
\* step, after the bytes that fault lets through
Kill(fault) ==
  /\ pc \in {"loop", "returned"}
  /\ pc' = "killed"
  /\ result' = "none"
  /\ bf' = BootstrapFile
  /\ IF fault = "ok"
     THEN /\ hist' = [hist EXCEPT !.faults = TRUE]
          /\ UNCHANGED fs
     ELSE /\ pc = "loop"
          /\ IF bf.m_cur_height <= block_stop
             THEN LET h == bf.m_cur_height
                      w == write_block(bf, get_block(h, Honest))
                      r == flush_chunk(w.bf, fs, fault)
                  IN /\ chunk_due(h, N)
                     /\ fs' = r.fs
                     /\ hist' = [hist EXCEPT !.faults = TRUE, !.read = @ \o <<h>>,
                                             !.appended = @ \o <<h>>, !.flush = r.obs]
             ELSE LET r == flush_chunk(bf, fs, fault)
                  IN /\ last_chunk_due(bf.m_cur_height, N)
                     /\ fs' = r.fs
                     /\ hist' = [hist EXCEPT !.faults = TRUE, !.flush = r.obs]
  /\ UNCHANGED <<N, chain, args, block_stop, runs, origin, rd, mn, cp, px>>

\* the process ends: the BootstrapFile object is destroyed, which closes the
\* std::ofstream and so writes out what is still in its put area
Exit ==
  /\ pc \in {"returned", "killed"}
  /\ fs' = flush_file(bf, fs, -1).fs
  /\ bf' = BootstrapFile
  /\ pc' = "idle"
  /\ result' = "none"
  /\ hist' = NoHist
  /\ args' = NoArgs
  /\ block_stop' = 0
  /\ origin' = IF fs' = hist.pre THEN origin
               ELSE IF hist.created /\ result = "true" /\ ~hist.faults THEN Exported(args.start_block, block_stop)
               ELSE Other
  /\ UNCHANGED <<N, chain, runs, rd, mn, cp, px>>

\* store_blockchain_raw as a function of the chunking interval n: the file a
\* run leaves when nothing fails (the store answers every lookup, every write
\* reaches the disk), from the loop to the end of the process
RECURSIVE export_loop(_, _, _, _)
export_loop(n, b, f, stop) ==
  IF b.m_cur_height > stop
  THEN LET r == IF last_chunk_due(b.m_cur_height, n) THEN flush_chunk(b, f, "ok")
                ELSE [threw |-> FALSE, bf |-> b, fs |-> f]
           c == close(r.bf, r.fs, -1)
       IN [ret |-> c.ret, fs |-> flush_file(c.bf, c.fs, -1).fs]
  ELSE LET h == b.m_cur_height
           w == write_block(b, get_block(h, Honest))
           r == IF chunk_due(h, n) THEN flush_chunk(w.bf, f, "ok")
                ELSE [threw |-> FALSE, bf |-> w.bf, fs |-> f]
       IN export_loop(n, [r.bf EXCEPT !.m_cur_height = h + 1], r.fs, stop)

export(n, f, start_block, stop) ==
  LET o == open_writer(BootstrapFile, f, start_block, stop, "ok")
  IN IF o.ret # "true" THEN [ret |-> o.ret, fs |-> o.fs]
     ELSE export_loop(n, [o.bf EXCEPT !.m_cur_height = Max(start_block, o.bf.m_height)], o.fs, stop)

\* main, lines 177-185: 0 if store_blockchain_raw returned true, 1 if it
\* returned false or an exception reached CATCH_ENTRY
exit_status(r) == IF r = "true" THEN 0 ELSE 1

Faults == {"ok", "none", "length", "short"}
Envs == {"ok", "dir_is_file", "mkdir_fails", "open_fails"}

Next ==
  \/ \E s \in 0..MaxArg, r \in 0..MaxArg, env \in Envs : Start(s, r, env)
  \/ \E fault \in Faults, store \in Stores : Iterate(fault, store)
  \/ \E fault \in Faults, io \in {-1, 0} : Finish(fault, io)
  \/ \E fault \in Faults : Kill(fault)
  \/ Exit

Spec == Init /\ [][Next]_vars

\* ------------------------------------------- determine_block_stop alone
\* the chain heights, 0 (a store without blocks) included, and the requested
\* stops on which determine_block_stop is evaluated
InitStop ==
  /\ N = 1
  /\ chain \in 0..MaxStopChain
  /\ args \in {[NoArgs EXCEPT !.requested_block_stop = r] : r \in 0..MaxStopArg}
  /\ fs = Absent
  /\ bf = BootstrapFile
  /\ pc = "idle"
  /\ block_stop = 0
  /\ result = "none"
  /\ runs = 0
  /\ hist = NoHist
  /\ origin = Found
  /\ rd = NoRead
  /\ px = NoFork
  /\ cp = NoCheckpoints
  /\ mn = NoMain

\* line 374
DetermineStop ==
  /\ pc = "idle"
  /\ block_stop' = determine_block_stop(args.requested_block_stop)
  /\ pc' = "stop_determined"
  /\ UNCHANGED <<N, chain, fs, bf, args, result, runs, hist, origin, rd, mn, cp, px>>

NextStop == DetermineStop

SpecStop == InitStop /\ [][NextStop]_vars

\* ------------------------------------------- the export of an empty store
\* get_current_blockchain_height() is 0: the store has no block to find
InitEmpty ==
  /\ N \in 1..MaxN
  /\ chain = 0
  /\ fs \in {Absent, NotAContainer} \cup
            {[exists |-> TRUE, data |-> Container(0, 0, c)] : c \in 0..MaxPre}
  /\ bf = BootstrapFile
  /\ pc = "idle"
  /\ args = NoArgs
  /\ block_stop = 0
  /\ result = "none"
  /\ runs = 0
  /\ hist = NoHist
  /\ origin = Found
  /\ rd = NoRead
  /\ px = NoFork
  /\ cp = NoCheckpoints
  /\ mn = NoMain

\* the loop condition m_cur_height <= block_stop of line 379 never fails when
\* block_stop is the largest value of its type, so the loop is left only by
\* an exception or the end of the process
NextEmpty ==
  \/ \E s \in 0..MaxArg, r \in 0..MaxArg, env \in Envs : Start(s, r, env)
  \/ \E fault \in Faults, store \in Stores : Iterate(fault, store)
  \/ Kill("ok")
  \/ Exit

SpecEmpty == InitEmpty /\ [][NextEmpty]_vars

\* --------------------------------------------------- the reader alone
\* a valid container of up to MaxReadBlocks chunks is cut after some byte of
\* its chunk region and then read
InitRead ==
  /\ N = 1
  /\ chain = MaxReadBlocks + 1
  /\ fs \in {[exists |-> TRUE, data |-> Container(p[1], chain - 1, p[2])] :
               p \in (0..1) \X (0..MaxReadBlocks)}
  /\ bf = BootstrapFile
  /\ pc = "idle"
  /\ args = NoArgs
  /\ block_stop = 0
  /\ result = "none"
  /\ runs = 0
  /\ hist = [NoHist EXCEPT !.pre = fs]
  /\ origin = Found
  /\ rd = NoRead
  /\ px = NoFork
  /\ cp = NoCheckpoints
  /\ mn = NoMain

Truncate(p) ==
  /\ pc = "idle"
  /\ p >= header_size
  /\ p < ByteLen(fs.data)
  /\ fs' = [fs EXCEPT !.data = TakeBytes(fs.data, p)]
  /\ pc' = "truncated"
  /\ UNCHANGED <<N, chain, bf, args, block_stop, result, runs, hist, origin, rd, mn, cp, px>>

Read ==
  /\ pc \in {"idle", "truncated"}
  /\ rd' = [done |-> TRUE, ok |-> read_blocks(fs.data).ok, blocks |-> read_blocks(fs.data).blocks]
  /\ pc' = "read"
  /\ UNCHANGED <<N, chain, fs, bf, args, block_stop, result, runs, hist, origin, mn, cp, px>>

NextRead ==
  \/ \E p \in header_size..(header_size + MaxReadBlocks * (4 + BlockPackageBytes)) : Truncate(p)
  \/ Read

SpecRead == InitRead /\ [][NextRead]_vars

\* ------------------------------------------------------------------ main
MaxSeed == 2

exportVars == <<N, chain, fs, bf, pc, args, block_stop, result, runs, hist, origin, rd>>

\* no export run and no reader in this specification
ExportIdle ==
  /\ N = 1
  /\ chain = 1
  /\ fs = Absent
  /\ bf = BootstrapFile
  /\ pc = "idle"
  /\ args = NoArgs
  /\ block_stop = 0
  /\ result = "none"
  /\ runs = 0
  /\ hist = NoHist
  /\ origin = Found
  /\ rd = NoRead

InitMain ==
  /\ ExportIdle
  /\ cp = NoCheckpoints
  /\ px = NoFork
  /\ mn \in {[NoMain EXCEPT !.pc = "parse", !.help = o[1], !.opt_testnet = o[2],
                            !.opt_stagenet = o[3], !.opt_blocks_dat = o[4],
                            !.pruning_seed = seed] :
               o \in BOOLEAN \X BOOLEAN \X BOOLEAN \X BOOLEAN, seed \in 0..MaxSeed}

Return(m, status) == [m EXCEPT !.pc = "exited", !.status = status, !.left_at = m.pc]

\* lines 84-99 and 109-113: a command line that does not parse, --help, or
\* --testnet together with --stagenet returns 1
ParseArguments(parsed) ==
  /\ mn.pc = "parse"
  /\ mn' = IF ~parsed \/ mn.help \/ (mn.opt_testnet /\ mn.opt_stagenet)
           THEN Return(mn, 1)
           ELSE [mn EXCEPT !.pc = "storage"]
  /\ UNCHANGED <<exportVars, cp, px>>

\* lines 125-160: new_db() returning null throws (CATCH_ENTRY returns 1), a
\* failing db->open or blockchain.init returns 1
InitStorage(db) ==
  /\ mn.pc = "storage"
  /\ mn' = IF db = "ok" THEN [mn EXCEPT !.pc = "pruning"] ELSE Return(mn, 1)
  /\ UNCHANGED <<exportVars, cp, px>>

pruning_refused_never(seed, opt_blocks_dat) == FALSE

\* line 163
pruning_refused(seed, opt_blocks_dat) == seed # 0 /\ ~opt_blocks_dat

\* lines 162-166
CheckPruning ==
  /\ mn.pc = "pruning"
  /\ mn' = IF pruning_refused(mn.pruning_seed, mn.opt_blocks_dat)
           THEN Return(mn, 1)
           ELSE [mn EXCEPT !.pc = "export"]
  /\ UNCHANGED <<exportVars, cp, px>>

\* lines 171-185: r is what store_blockchain_raw of the chosen exporter
\* returned or that it threw; it opens the output path before it asks the
\* store for a block
Export(r, opened, read) ==
  /\ mn.pc = "export"
  /\ read => opened
  /\ mn' = [Return(mn, exit_status(r)) EXCEPT
             !.exporter = IF mn.opt_blocks_dat THEN "blocksdat" ELSE "bootstrap",
             !.path_opened = opened,
             !.blocks_read = read]
  /\ UNCHANGED <<exportVars, cp, px>>

NextMain ==
  \/ \E parsed \in BOOLEAN : ParseArguments(parsed)
  \/ \E db \in {"ok", "no_db", "open_throws", "init_fails"} : InitStorage(db)
  \/ CheckPruning
  \/ \E r \in {"true", "false", "threw"}, opened \in BOOLEAN, read \in BOOLEAN :
        Export(r, opened, read)

SpecMain == InitMain /\ [][NextMain]_vars

\* ----------------------------------------------------------- checkpoints
MaxHeight == 1

\* epee::string_tools::hex_to_pod, line 76: a string of hexadecimal digits of
\* either case yields the value it spells, any other string fails
hex_to_pod(hash_str) ==
  IF hash_str \in {"aa", "AA"} THEN [ok |-> TRUE, h |-> 170]
  ELSE IF hash_str = "bb" THEN [ok |-> TRUE, h |-> 187]
  ELSE [ok |-> FALSE, h |-> 0]

\* difficulty_type difficulty(difficulty_str), line 88: the constructor throws
\* on a string that is not a number
difficulty_type(difficulty_str) ==
  IF difficulty_str = "1" THEN [threw |-> FALSE, difficulty |-> 1]
  ELSE IF difficulty_str = "2" THEN [threw |-> FALSE, difficulty |-> 2]
  ELSE [threw |-> TRUE, difficulty |-> 0]

HashStrings == {"aa", "AA", "bb", "zz"}
DifficultyStrings == {"", "1", "2", "x"}

\* m[k] = v of std::map
Put(m, k, v) == [x \in DOMAIN m \cup {k} |-> IF x = k THEN v ELSE m[x]]

\* checkpoints::add_checkpoint, lines 73-102
add_checkpoint(points, difficulty_points, height, hash_str, difficulty_str) ==
  LET p == hex_to_pod(hash_str)
      d == difficulty_type(difficulty_str)
      points1 == Put(points, height, p.h)
  IN IF ~p.ok
     THEN [ret |-> FALSE, m_points |-> points, m_difficulty_points |-> difficulty_points]
     ELSE IF height \in DOMAIN points /\ points[height] # p.h
     THEN [ret |-> FALSE, m_points |-> points, m_difficulty_points |-> difficulty_points]
     ELSE IF difficulty_str = ""
     THEN [ret |-> TRUE, m_points |-> points1, m_difficulty_points |-> difficulty_points]
     ELSE IF d.threw
     THEN [ret |-> FALSE, m_points |-> points1, m_difficulty_points |-> difficulty_points]
     ELSE IF height \in DOMAIN difficulty_points /\ difficulty_points[height] # d.difficulty
     THEN [ret |-> FALSE, m_points |-> points1, m_difficulty_points |-> difficulty_points]
     ELSE [ret |-> TRUE, m_points |-> points1,
           m_difficulty_points |-> Put(difficulty_points, height, d.difficulty)]

check_block_ignoring_hash(points, height, h) ==
  [ret |-> TRUE, is_a_checkpoint |-> height \in DOMAIN points]

\* checkpoints::check_block, lines 108-123
check_block(points, height, h) ==
  LET is_a_checkpoint == height \in DOMAIN points
  IN IF ~is_a_checkpoint THEN [ret |-> TRUE, is_a_checkpoint |-> FALSE]
     ELSE IF points[height] = h THEN [ret |-> TRUE, is_a_checkpoint |-> TRUE]
     ELSE [ret |-> FALSE, is_a_checkpoint |-> TRUE]

\* iterators of std::map: a key, or End for end()
End == -1
Least(S) == CHOOSE k \in S : \A l \in S : k <= l
Greatest(S) == CHOOSE k \in S : \A l \in S : k >= l
begin(points) == IF DOMAIN points = {} THEN End ELSE Least(DOMAIN points)

\* the first key not less than k
lower_bound(points, k) ==
  LET S == {x \in DOMAIN points : x >= k} IN IF S = {} THEN End ELSE Least(S)

\* the first key greater than k
upper_bound(points, k) ==
  LET S == {x \in DOMAIN points : x > k} IN IF S = {} THEN End ELSE Least(S)

\* --it on an iterator that is not begin()
prev(points, it) ==
  IF it = End THEN Greatest(DOMAIN points)
  ELSE Greatest({x \in DOMAIN points : x < it})

is_alternative_block_allowed_lower_bound(points, blockchain_height, block_height) ==
  IF block_height = 0 THEN FALSE
  ELSE LET it == lower_bound(points, blockchain_height)
       IN IF it = begin(points) THEN TRUE
          ELSE prev(points, it) < block_height

\* checkpoints::is_alternative_block_allowed, lines 131-144
is_alternative_block_allowed(points, blockchain_height, block_height) ==
  IF block_height = 0 THEN FALSE
  ELSE LET it == upper_bound(points, blockchain_height)
       IN IF it = begin(points) THEN TRUE
          ELSE prev(points, it) < block_height

InitCheckpoints ==
  /\ ExportIdle
  /\ mn = NoMain
  /\ px = NoFork
  /\ cp = NoCheckpoints

Tables(c) == [m_points |-> c.m_points, m_difficulty_points |-> c.m_difficulty_points]

AddCheckpoint(height, hash_str, difficulty_str) ==
  /\ LET r == add_checkpoint(cp.m_points, cp.m_difficulty_points, height, hash_str, difficulty_str)
     IN cp' = [cp EXCEPT
                 !.m_points = r.m_points,
                 !.m_difficulty_points = r.m_difficulty_points,
                 !.before = Tables(cp),
                 !.last = [NoCall EXCEPT !.op = "add_checkpoint", !.height = height,
                                         !.hash_str = hash_str,
                                         !.difficulty_str = difficulty_str,
                                         !.ret = r.ret,
                                         !.recorded = (height \in DOMAIN r.m_points
                                                       /\ height \notin DOMAIN cp.m_points),
                                         !.repeats = (/\ cp.last.op = "add_checkpoint"
                                                      /\ cp.last.recorded
                                                      /\ cp.last.height = height
                                                      /\ cp.last.hash_str = hash_str
                                                      /\ cp.last.difficulty_str = difficulty_str)]]
  /\ UNCHANGED <<exportVars, mn, px>>

\* check_block(height, h, is_a_checkpoint), and check_block(height, h) of
\* lines 125-128, which returns the same value
CheckBlock(height, hash_str) ==
  /\ hex_to_pod(hash_str).ok
  /\ LET r == check_block(cp.m_points, height, hex_to_pod(hash_str).h)
     IN cp' = [cp EXCEPT
                 !.before = Tables(cp),
                 !.last = [NoCall EXCEPT !.op = "check_block", !.height = height,
                                         !.hash_str = hash_str, !.ret = r.ret,
                                         !.is_a_checkpoint = r.is_a_checkpoint]]
  /\ UNCHANGED <<exportVars, mn, px>>

IsAlternativeBlockAllowed(blockchain_height, block_height) ==
  /\ cp' = [cp EXCEPT
              !.before = Tables(cp),
              !.last = [NoCall EXCEPT !.op = "is_alternative_block_allowed",
                                      !.blockchain_height = blockchain_height,
                                      !.block_height = block_height,
                                      !.ret = is_alternative_block_allowed(
                                                cp.m_points, blockchain_height, block_height)]]
  /\ UNCHANGED <<exportVars, mn, px>>

NextCheckpoints ==
  \/ \E height \in 0..MaxHeight, hash_str \in HashStrings, difficulty_str \in DifficultyStrings :
        AddCheckpoint(height, hash_str, difficulty_str)
  \/ \E height \in 0..MaxHeight, hash_str \in HashStrings : CheckBlock(height, hash_str)
  \/ \E blockchain_height \in 0..(MaxHeight + 1), block_height \in 0..(MaxHeight + 1) :
        IsAlternativeBlockAllowed(blockchain_height, block_height)

SpecCheckpoints == InitCheckpoints /\ [][NextCheckpoints]_vars

\* ------------------------------------------------------------ posix::fork
MaxInv == 2

\* process ids: init, a running process that is no invocation's, a process
\* that has ended, and the first of the ids given to the invocations' callers
\* and to the processes that fork() creates
Pids == [init |-> 1, foreign |-> 2, stale |-> 3, first |-> 4]

\* what the PID file holds: content 0 stands for text that is not a number
PidFiles ==
  {[exists |-> FALSE, content |-> 0], [exists |-> TRUE, content |-> 0],
   [exists |-> TRUE, content |-> Pids.init], [exists |-> TRUE, content |-> Pids.foreign],
   [exists |-> TRUE, content |-> Pids.stale]}

\* an invocation of posix::fork: pc is the statement its surviving process is
\* at ("check" | "fork1" | "setsid" | "fork2" | "write" | "redirect" | "done"
\* | "threw"), pid that process, original the caller; steps, exited, blind
\* are observations: the steps taken with the process that took them (for
\* handle_existing_pid with the id of a running process that the PID file
\* held then, or 0), the processes that called exit with their status, and
\* whether the PID file could not be opened for reading or kill was refused
Invocation(caller) ==
  [pc |-> "check", pid |-> caller, original |-> caller, sid |-> 0,
   steps |-> <<>>, exited |-> <<>>, blind |-> FALSE]

InitFork ==
  /\ ExportIdle
  /\ mn = NoMain
  /\ cp = NoCheckpoints
  /\ px \in {[use_pidfile |-> u, pidfile |-> f,
              running |-> {Pids.init, Pids.foreign} \cup {Pids.first + i - 1 : i \in 1..MaxInv},
              next_pid |-> Pids.first + MaxInv,
              inv |-> [i \in 1..MaxInv |-> Invocation(Pids.first + i - 1)]] :
             u \in BOOLEAN, f \in PidFiles}

Step(name, pid, value) == [step |-> name, pid |-> pid, value |-> value]

\* kill(oldpid, 0) == 0: the process exists and the caller may signal it; a
\* process of another user exists and kill returns -1 (EPERM)
kill0(running, oldpid, permitted) ==
  oldpid \in running /\ (oldpid = Pids.foreign => permitted)

\* handle_existing_pid, lines 29-43: TRUE if it calls quit
handle_existing_pid(use_pidfile, file, running, is_open, permitted) ==
  /\ use_pidfile
  /\ file.exists /\ is_open
  /\ file.content # 0
  /\ file.content > 1
  /\ kill0(running, file.content, permitted)

\* the id of a running process, greater than 1, that the PID file holds, or 0
RunningPidIn(use_pidfile, file, running) ==
  IF use_pidfile /\ file.exists /\ file.content > 1 /\ file.content \in running
  THEN file.content ELSE 0

\* line 107
HandleExistingPid(i, is_open, permitted) ==
  /\ px.inv[i].pc = "check"
  /\ px' = [px EXCEPT !.inv[i].pc =
                IF handle_existing_pid(px.use_pidfile, px.pidfile, px.running, is_open, permitted)
                THEN "threw" ELSE "fork1",
              !.inv[i].steps = @ \o <<Step("handle_existing_pid", px.inv[i].pid,
                                           RunningPidIn(px.use_pidfile, px.pidfile, px.running))>>,
              !.inv[i].blind = (px.use_pidfile /\ px.pidfile.exists
                                /\ (~is_open \/ (px.pidfile.content = Pids.foreign /\ ~permitted)))]
  /\ UNCHANGED <<exportVars, mn, cp>>

\* safe_fork, lines 60-69, and its calls in lines 110 and 116: fork() returns
\* the new process id in the parent, which exits with status 0, and 0 in the
\* new process, which goes on; or it returns -1 and quit throws
SafeFork(i, forked) ==
  /\ px.inv[i].pc \in {"fork1", "fork2"}
  /\ LET me == px.inv[i]
         child == px.next_pid
         then == IF me.pc = "fork1" THEN "setsid" ELSE "write"
     IN px' = IF forked
              THEN [px EXCEPT !.inv[i].pc = then,
                              !.inv[i].pid = child,
                              !.inv[i].steps = @ \o <<Step("fork", me.pid, child)>>,
                              !.inv[i].exited = @ \o <<[pid |-> me.pid, status |-> 0]>>,
                              !.running = (@ \ {me.pid}) \cup {child},
                              !.next_pid = @ + 1]
              ELSE [px EXCEPT !.inv[i].pc = "threw",
                              !.inv[i].steps = @ \o <<Step("fork", me.pid, -1)>>]
  /\ UNCHANGED <<exportVars, mn, cp>>

\* line 113: the result of setsid() is not looked at
Setsid(i) ==
  /\ px.inv[i].pc = "setsid"
  /\ px' = [px EXCEPT !.inv[i].pc = "fork2",
                      !.inv[i].sid = px.inv[i].pid,
                      !.inv[i].steps = @ \o <<Step("setsid", px.inv[i].pid, 0)>>]
  /\ UNCHANGED <<exportVars, mn, cp>>

getpid_of_caller(me) == me.original

\* ::getpid() of the process that runs the invocation
getpid(me) == me.pid

\* write_pid_to_file, lines 46-57, called in line 119
WritePidToFile(i, is_open) ==
  /\ px.inv[i].pc = "write"
  /\ LET me == px.inv[i]
     IN px' = IF ~px.use_pidfile
              THEN [px EXCEPT !.inv[i].pc = "redirect"]
              ELSE IF ~is_open
              THEN [px EXCEPT !.inv[i].pc = "threw",
                              !.inv[i].steps = @ \o <<Step("write_pid_to_file", me.pid, -1)>>]
              ELSE [px EXCEPT !.inv[i].pc = "redirect",
                              !.pidfile = [exists |-> TRUE, content |-> getpid(me)],
                              !.inv[i].steps = @ \o <<Step("write_pid_to_file", me.pid, getpid(me))>>]
  /\ UNCHANGED <<exportVars, mn, cp>>

\* redirect_streams, lines 72-102, called in line 122: it throws if an open
\* of /dev/null or the dup fails
RedirectStreams(i, redirected) ==
  /\ px.inv[i].pc = "redirect"
  /\ px' = [px EXCEPT !.inv[i].pc = IF redirected THEN "done" ELSE "threw",
                      !.inv[i].steps = @ \o <<Step("redirect_streams", px.inv[i].pid,
                                                   IF redirected THEN 0 ELSE -1)>>]
  /\ UNCHANGED <<exportVars, mn, cp>>

NextFork ==
  \/ \E i \in 1..MaxInv, is_open \in BOOLEAN, permitted \in BOOLEAN :
        HandleExistingPid(i, is_open, permitted)
  \/ \E i \in 1..MaxInv, forked \in BOOLEAN : SafeFork(i, forked)
  \/ \E i \in 1..MaxInv : Setsid(i)
  \/ \E i \in 1..MaxInv, is_open \in BOOLEAN : WritePidToFile(i, is_open)
  \/ \E i \in 1..MaxInv, redirected \in BOOLEAN : RedirectStreams(i, redirected)

SpecFork == InitFork /\ [][NextFork]_vars

\* ------------------------------------------------------------ properties
HasBlocksInfo(s) == \E i \in 1..Len(s) : s[i].k = "blocks_info"

\* first_block_height of the first blocks_info record in s
first_block_height(s) ==
  LET i == CHOOSE i \in 1..Len(s) :
             s[i].k = "blocks_info" /\ \A j \in 1..(i - 1) : s[j].k # "blocks_info"
  IN s[i].v[1]

\* the block packages the structural scan finds in the complete chunks of a
\* container
StoredBlocks(s) == ScanChunks(SubSeq(s, 5, Len(s))).blocks

\* a container that is a header followed by complete chunks only: every length
\* field is followed, up to the next length field or the end, by block packages
\* of exactly that many bytes
Intact(s) ==
  LET U == {i \in 5..Len(s) : s[i].k = "u32"}
      next(i) == IF \E j \in U : j > i
                 THEN CHOOSE j \in U : j > i /\ \A l \in U : l > i => j <= l
                 ELSE Len(s) + 1
  IN /\ HeaderOk(s)
     /\ Len(s) > 4 => 5 \in U
     /\ \A i \in U :
          /\ ByteLen(SubSeq(s, i + 1, next(i) - 1)) = s[i].v[1]
          /\ \A j \in (i + 1)..(next(i) - 1) : s[j].k = "bp"

IsSuffix(s, t) == Len(s) <= Len(t) /\ SubSeq(t, Len(t) - Len(s) + 1, Len(t)) = s

\* C1: an export into a file that did not exist, returning true, leaves a file
\* that decodes to exactly the block packages of heights start..stop, in order.
C1_RoundTrip ==
  (pc = "returned" /\ result = "true" /\ hist.created /\ ~hist.faults
     /\ args.start_block <= block_stop)
    => read_blocks(fs.data) = [ok |-> TRUE, blocks |-> Range(args.start_block, block_stop)]

\* C2: when store_blockchain_raw returns true no block package is left in the
\* chunk buffer, and every block appended by write_block is in the file.
C2_NothingLeftInBuffer ==
  (pc = "returned" /\ result = "true")
    => /\ Heights(bf.m_buffer \o bf.m_output_stream) = <<>>
       /\ IsSuffix(hist.appended, Heights(fs.data))

\* C3: a second export on a file that a first export created and filled with
\* [H0..H5] leaves a file that decodes to [H0..H9], as one export of that range.
C3_Resumability ==
  (/\ pc = "returned"
   /\ hist.pre.exists
   /\ origin.kind = "exported"
   /\ origin.start_block <= origin.block_stop
   /\ args.start_block <= origin.block_stop + 1
   /\ block_stop >= origin.block_stop
   /\ ~hist.faults)
    => /\ result = "true"
       /\ read_blocks(fs.data) = [ok |-> TRUE, blocks |-> Range(origin.start_block, block_stop)]

\* C4: after any sequence of export runs the i-th block package stored in the
\* file is the block of height first_block_height + i.
C4_ContiguousHeights ==
  (pc = "idle" /\ fs.exists /\ HasBlocksInfo(fs.data))
    => LET H == Heights(fs.data)
           first == first_block_height(fs.data)
       IN H = Range(first, first + Len(H) - 1)

\* C5: the chunk buffer is empty at the start of every flush cycle, and the
\* payload of every chunk holds block packages only.
C5_BufferEmptyAtCycleStart ==
  /\ (pc = "loop" /\ hist.fresh) => bf.m_buffer = <<>> /\ bf.m_output_stream = <<>>
  /\ hist.flush.called => \A i \in 1..Len(hist.flush.buffer) : hist.flush.buffer[i].k = "bp"

\* C6: a newly created file starts with a header region of exactly header_size
\* bytes (magic, file_info, blocks_info, zero padding) that records header_size,
\* and the length field of the first chunk follows it immediately.
C6_HeaderRegion ==
  (pc = "loop" /\ hist.created)
    => LET w == fs.data \o bf.raw
       IN /\ Len(w) >= 4
          /\ w[1] = U32(blockchain_raw_magic)
          /\ w[2].k = "file_info" /\ w[2].v[3] = header_size
          /\ w[3].k = "blocks_info" /\ w[3].v[1] = args.start_block
          /\ w[4].k = "pad"
          /\ ByteLen(SubSeq(w, 1, 4)) = header_size
          /\ Len(w) > 4 => w[5].k = "u32"

\* C7: a chunk that flush_chunk completes without throwing is a length field
\* followed by exactly that many payload bytes, and flush_chunk throws when the
\* number of payload bytes written differs from the length field.
C7_ChunkLengthMatchesPayload ==
  hist.flush.called
    => /\ hist.flush.payload # hist.flush.chunk_size => hist.flush.threw
       /\ ~hist.flush.threw
            => LET d == fs.data
                   n == Len(hist.flush.buffer)
               IN /\ Len(d) >= n + 1
                  /\ d[Len(d) - n].k = "u32"
                  /\ d[Len(d) - n].v[1] = ByteLen(SubSeq(d, Len(d) - n + 1, Len(d)))
                  /\ SubSeq(d, Len(d) - n + 1, Len(d)) = hist.flush.buffer

C7_Witness ==
  /\ hist.flush.called
  /\ ~hist.flush.threw
  /\ hist.flush.chunk_size > 0
  /\ pc = "returned"
  /\ result = "true"

\* C8: every chunk written holds at least one block package: flush_chunk never
\* runs with an empty buffer.
C8_NoEmptyChunk ==
  hist.flush.called => Heights(hist.flush.buffer) # <<>>

\* C9 as stated: after open_writer returns true m_height is first_block_height
\* plus the number of block packages stored, which for a new file is the
\* requested first height.
C9_ResumeHeightAsStated ==
  pc = "loop"
    => bf.m_height =
         IF hist.created THEN args.start_block
         ELSE first_block_height(hist.pre.data) + Len(StoredBlocks(hist.pre.data))

\* C9 amended: for an existing container (header, complete chunks, possibly a
\* truncated last chunk) m_height is first_block_height plus the number of block
\* packages in its complete chunks, which for a container without a truncated
\* chunk is every block package in it; for a new file m_height is 0, the
\* blocks_info record carries start_block as first_block_height, and the loop
\* starts at max(start_block, m_height) = start_block.
C9_ResumeHeight ==
  pc = "loop"
    => IF hist.created
       THEN /\ bf.m_height = 0
            /\ hist.first = args.start_block
            /\ LET w == fs.data \o bf.raw \o bf.m_buffer \o bf.m_output_stream
               IN hist.appended = <<>> => HasBlocksInfo(w) /\ first_block_height(w) = args.start_block
       ELSE /\ bf.m_height = first_block_height(hist.pre.data) + Len(StoredBlocks(hist.pre.data))
            /\ Intact(hist.pre.data)
                 => bf.m_height = first_block_height(hist.pre.data) + Len(Heights(hist.pre.data))

C9_Witness ==
  /\ pc = "loop"
  /\ ~hist.created
  /\ hist.pre.exists
  /\ first_block_height(hist.pre.data) > 0
  /\ Intact(hist.pre.data)
  /\ Heights(hist.pre.data) # <<>>
  /\ bf.m_height = first_block_height(hist.pre.data) + Len(Heights(hist.pre.data))

\* C10: a run on an existing file leaves the bytes that were in it in place:
\* the previous content is a prefix of the content during and after the run.
C10_AppendOnly ==
  (pc # "idle" /\ hist.pre.exists)
    => fs.exists /\ IsPrefix(hist.pre.data, fs.data)

C10_Witness ==
  /\ pc = "returned"
  /\ result = "true"
  /\ hist.pre.exists
  /\ Len(fs.data) > Len(hist.pre.data)
  /\ IsPrefix(hist.pre.data, fs.data)

\* the heights of the block packages of s that lie in a complete chunk: behind
\* a length field, among the bytes it announces, all of which are there
BlocksInCompleteChunks(s) ==
  LET kept(j) == /\ s[j].k = "bp"
                 /\ \E i \in 1..(j - 1) :
                      /\ s[i].k = "u32"
                      /\ \A l \in (i + 1)..j : s[l].k # "u32"
                      /\ PayloadEnd(SubSeq(s, i + 1, Len(s)), s[i].v[1]) >= j - i
      F[j \in 0..Len(s)] ==
        IF j = 0 THEN <<>> ELSE IF kept(j) THEN F[j - 1] \o <<s[j].v[1]>> ELSE F[j - 1]
  IN F[Len(s)]

\* what the run has added to the file
Added == SubSeq(fs.data, Len(hist.pre.data) + 1, Len(fs.data))

\* C11: when the process is killed, every chunk that flush_chunk completed is
\* in the file as written, behind the bytes the file had before the run, and
\* the blocks read from the store that are in no complete chunk are the last
\* ones read, at most N of them.
C11_KillLosesAtMostOneChunk ==
  (pc = "killed" /\ hist.opened)
    => /\ fs.exists
       /\ IsPrefix(hist.pre.data, fs.data)
       /\ BlocksInCompleteChunks(Added) = hist.committed
       /\ IsPrefix(hist.committed, hist.appended)
       /\ Len(hist.appended) - Len(hist.committed) <= N

C11_Witness ==
  /\ pc = "killed"
  /\ hist.flush.called
  /\ hist.committed # <<>>
  /\ Len(hist.appended) - Len(hist.committed) = N
  /\ Len(Added) > 0
  /\ Added[Len(Added)].k = "frag"

\* C12: once the store has failed to produce the block of a height, the export
\* is over without success: no package was appended for that height or a later
\* one, and no later height is processed.
C12_AbortsOnLookupFailure ==
  hist.lookup_failed # -1
    => /\ pc \in {"returned", "killed"}
       /\ result # "true"
       /\ Len(hist.appended) = hist.lookup_failed

\* C13: once a block with a null or unresolvable transaction hash has come up,
\* the run has ended with an exception: nothing of that block is in the chunk
\* buffer or in the file, whose block packages are those appended before, and
\* no later height was asked of the store.
C13_AbortsOnBadTransaction ==
  hist.tx_failed # -1
    => /\ pc \in {"returned", "killed"}
       /\ result # "true"
       /\ Len(hist.appended) = hist.tx_failed
       /\ pc = "returned"
            => /\ result = "threw"
               /\ Heights(Added \o bf.raw \o bf.m_buffer \o bf.m_output_stream) = hist.appended
               /\ hist.read[Len(hist.read)] = bf.m_cur_height

C13_Witness ==
  /\ pc = "returned"
  /\ result = "threw"
  /\ hist.tx_failed > 0
  /\ Len(hist.read) = hist.tx_failed + 1
  /\ bf.m_output_stream # <<>>

\* C14: with a store that answers every lookup, every package write_block
\* appends carries the height that follows the height of the package written
\* before it (in the file before the run, or earlier in the run).
C14_HeightOrder ==
  (~hist.faults /\ Intact(hist.pre.data))
    => LET H == Heights(hist.pre.data) \o hist.appended
       IN \A i \in 2..Len(H) : i > Len(Heights(hist.pre.data)) => H[i] = H[i - 1] + 1

\* C15: the block packages in the file that an export of a height range leaves
\* are the same, in the same order, for every chunking interval.
C15_ChunkBoundaryIndependence ==
  (pc = "returned" /\ result = "true" /\ hist.created /\ ~hist.faults
     /\ args.start_block <= block_stop)
    => \A n \in 1..MaxN :
         Heights(export(n, hist.pre, args.start_block, block_stop).fs.data) = Heights(fs.data)

\* C16: the effective stop height is chain height - 1, or the requested stop if
\* one is given (> 0) and smaller; it is never above the height of the last
\* block of the chain, chain height - 1.
C16_EffectiveStop ==
  pc = "stop_determined"
    => LET last == chain - 1
           cap == args.requested_block_stop
       IN /\ block_stop = IF cap > 0 /\ cap < last THEN cap ELSE last
          /\ block_stop <= last

\* nothing was asked of the store and nothing was written or is waiting to be
NothingReadOrWritten ==
  /\ hist.read = <<>>
  /\ hist.appended = <<>>
  /\ fs = hist.pre
  /\ bf.raw = <<>> /\ bf.m_buffer = <<>> /\ bf.m_output_stream = <<>>
  /\ ~hist.flush.called

C18_CloseReportsFlushError ==
  (pc = "returned" /\ hist.closed)
    => (result = "true" <=> ~bf.fail) /\ (result = "false" <=> bf.fail)

\* a container whose header is in the documented layout and whose last chunk
\* is cut: its length field is there, whole or in part, but not all the bytes
\* it announces
TruncatedTail(s) ==
  /\ HeaderOk(s)
  /\ Len(s) > 4
  /\ \E i \in 5..Len(s) :
       /\ s[i].k \in {"u32", "frag"}
       /\ \A j \in (i + 1)..Len(s) : s[j].k # "u32"
       /\ s[i].k = "u32" => ByteLen(SubSeq(s, i + 1, Len(s))) < s[i].v[1]
       /\ s[i].k = "frag" => i = Len(s)
       /\ Intact(SubSeq(s, 1, i - 1))

\* C19: on an existing file that ends in a truncated chunk behind complete
\* ones, open_writer does not fail in the structural scan, and m_height is
\* first_block_height plus the number of blocks in the complete chunks.
C19_TruncatedTailResume ==
  (pc \in {"loop", "returned"} /\ hist.env = "ok" /\ TruncatedTail(hist.pre.data))
    => /\ hist.opened
       /\ bf.m_height = first_block_height(hist.pre.data)
                          + Len(BlocksInCompleteChunks(SubSeq(hist.pre.data, 5, Len(hist.pre.data))))

C19_Witness ==
  /\ pc = "loop"
  /\ TruncatedTail(hist.pre.data)
  /\ BlocksInCompleteChunks(SubSeq(hist.pre.data, 5, Len(hist.pre.data))) # <<>>
  /\ Len(Heights(hist.pre.data)) > Len(BlocksInCompleteChunks(SubSeq(hist.pre.data, 5, Len(hist.pre.data))))
  /\ bf.m_height = first_block_height(hist.pre.data)
                     + Len(BlocksInCompleteChunks(SubSeq(hist.pre.data, 5, Len(hist.pre.data))))

\* C20: a valid container (one block package per chunk) cut after cut bytes
\* reads, if cut is the end of a chunk, as the blocks of the chunks before cut
\* without error, and otherwise as an error, with no block sequence returned.
C20_TruncationTolerance ==
  (pc = "read" /\ rd.done)
    => LET cut == ByteLen(fs.data) - header_size
           chunk == 4 + BlockPackageBytes
           first == first_block_height(hist.pre.data)
       IN IF cut % chunk = 0
          THEN rd.ok /\ rd.blocks = Range(first, first + (cut \div chunk) - 1)
          ELSE ~rd.ok /\ rd.blocks = <<>>

C20_Witness ==
  /\ pc = "read"
  /\ rd.done
  /\ rd.ok
  /\ fs.data # hist.pre.data
  /\ rd.blocks # <<>>
  /\ Len(rd.blocks) < Len(Heights(hist.pre.data))

\* C21: a run that resumes on a container whose last chunk is cut and that
\* adds blocks leaves a header followed by complete chunks only.
C21_NoChunkBehindTruncatedOne ==
  (pc = "returned" /\ result = "true" /\ ~hist.faults
     /\ TruncatedTail(hist.pre.data) /\ hist.appended # <<>>)
    => Intact(fs.data)

\* C22: the program exits with status 0 only if every block from the resume
\* height through the effective stop height is in a complete chunk of the file
\* and the stream is free of errors after close(); it exits with a non-zero
\* status if open_writer failed, an exception was thrown, or the stream is in
\* an error state after close().
C22_ExitStatus ==
  pc = "returned"
    => /\ exit_status(result) = 0
            => /\ hist.closed
               /\ ~bf.fail
               /\ IsSuffix(Range(hist.first, block_stop), BlocksInCompleteChunks(fs.data))
       /\ (~hist.opened \/ result = "threw" \/ (hist.closed /\ bf.fail))
            => exit_status(result) # 0

\* C22 without a failing write, store or file system
C22_ExitStatusNoFault == ~hist.faults => C22_ExitStatus

\* every height 0..stop has its block package in a complete chunk of s
HoldsThrough(s, stop) ==
  /\ Intact(s)
  /\ \A h \in 0..stop : \E i \in 1..Len(StoredBlocks(s)) : StoredBlocks(s)[i] = h

\* C23: an export on a file that already holds every block through the
\* effective stop height leaves the file byte for byte as it was, for every
\* NUM_BLOCKS_PER_CHUNK.
C23_RerunIsIdempotent ==
  (pc = "returned" /\ ~hist.faults /\ hist.pre.exists
     /\ HoldsThrough(hist.pre.data, block_stop))
    => fs = hist.pre

\* the heights asked of the store are no more than first..stop holds
AskedAtMostTheRange ==
  hist.read = <<>> \/ Len(hist.read) - 1 <= block_stop - hist.first

\* C24: a run asks the store for at most (effective stop - first height + 1)
\* heights, and on an empty chain it writes no block package.
C24_BoundedLoopNoPackageOnEmptyChain ==
  /\ AskedAtMostTheRange
  /\ (chain = 0 /\ pc # "idle") => hist.appended = <<>> /\ Heights(Added) = <<>>

\* the first half of C24 on chains that hold a block
C24_BoundedLoop ==
  chain > 0 => AskedAtMostTheRange

\* C25: without --blocksdat a chain with a non-zero pruning seed makes main
\* return 1 at the pruning check, with no exporter called, the output path
\* neither created nor opened and no block read; with --blocksdat a pruned
\* chain that passes the pruning check goes on to the export.
C25_PrunedChainRefused ==
  /\ (mn.pruning_seed # 0 /\ ~mn.opt_blocks_dat)
       => /\ mn.pc # "export"
          /\ mn.exporter = "none" /\ ~mn.path_opened /\ ~mn.blocks_read
          /\ mn.pc = "exited" => mn.status = 1
  /\ (mn.pruning_seed # 0 /\ mn.opt_blocks_dat /\ mn.pc = "exited")
       => mn.left_at # "pruning"

C25_Witness ==
  /\ mn.pc = "exited"
  /\ mn.left_at = "pruning"
  /\ mn.pruning_seed # 0
  /\ ~mn.opt_blocks_dat
  /\ mn.status = 1

\* a pruned chain exported with --blocksdat
C25_WitnessBlocksdat ==
  /\ mn.pc = "exited"
  /\ mn.pruning_seed # 0
  /\ mn.exporter = "blocksdat"
  /\ mn.status = 0

LastAdd == cp.last.op = "add_checkpoint"

\* C26: a hash recorded for a height is never changed or removed; a call with
\* the same height and a different valid hash returns false; a call that
\* repeats the height, hash string and difficulty string of the call that
\* recorded the height returns true and leaves both tables as they were.
C26_RecordedHashIsFinal ==
  LastAdd
    => /\ \A k \in DOMAIN cp.before.m_points :
            k \in DOMAIN cp.m_points /\ cp.m_points[k] = cp.before.m_points[k]
       /\ (/\ cp.last.height \in DOMAIN cp.before.m_points
           /\ hex_to_pod(cp.last.hash_str).ok
           /\ hex_to_pod(cp.last.hash_str).h # cp.before.m_points[cp.last.height])
            => ~cp.last.ret
       /\ cp.last.repeats => cp.last.ret /\ Tables(cp) = cp.before

\* the first two parts of C26
C26_RecordedHashNeverChanges ==
  LastAdd
    => /\ \A k \in DOMAIN cp.before.m_points :
            k \in DOMAIN cp.m_points /\ cp.m_points[k] = cp.before.m_points[k]
       /\ (/\ cp.last.height \in DOMAIN cp.before.m_points
           /\ hex_to_pod(cp.last.hash_str).ok
           /\ hex_to_pod(cp.last.hash_str).h # cp.before.m_points[cp.last.height])
            => ~cp.last.ret

\* C27: an add_checkpoint call that returns false leaves both tables exactly
\* as they were before the call.
C27_FalseLeavesTablesUnchanged ==
  (LastAdd /\ ~cp.last.ret) => Tables(cp) = cp.before

\* C28: check_block sets is_a_checkpoint to true exactly when a checkpoint is
\* recorded at the height, and returns false exactly when one is recorded
\* there with a hash other than h.
C28_CheckBlock ==
  cp.last.op = "check_block"
    => /\ cp.last.is_a_checkpoint <=> cp.last.height \in DOMAIN cp.m_points
       /\ ~cp.last.ret <=> /\ cp.last.height \in DOMAIN cp.m_points
                           /\ cp.m_points[cp.last.height] # hex_to_pod(cp.last.hash_str).h

C28_Witness ==
  /\ cp.last.op = "check_block"
  /\ cp.last.height \in DOMAIN cp.m_points
  /\ cp.m_points[cp.last.height] # hex_to_pod(cp.last.hash_str).h
  /\ cp.last.is_a_checkpoint
  /\ ~cp.last.ret

\* the checkpoint heights at or below the blockchain height of the last call
CheckpointsUpTo == {k \in DOMAIN cp.m_points : k <= cp.last.blockchain_height}

\* C29: is_alternative_block_allowed returns false for block height 0;
\* otherwise it returns true exactly when no checkpoint height is at or below
\* the blockchain height, or the block height is above the highest of them.
C29_AlternativeBlockAllowed ==
  cp.last.op = "is_alternative_block_allowed"
    => cp.last.ret <=> /\ cp.last.block_height # 0
                       /\ \A k \in CheckpointsUpTo : cp.last.block_height > k

C29_Witness ==
  /\ cp.last.op = "is_alternative_block_allowed"
  /\ CheckpointsUpTo # {}
  /\ cp.last.blockchain_height \in DOMAIN cp.m_points
  /\ \E k \in DOMAIN cp.m_points : k < cp.last.blockchain_height
  /\ cp.last.block_height = cp.last.blockchain_height
  /\ ~cp.last.ret

\* a block above the last checkpoint at or below the blockchain height
C29_WitnessAllowed ==
  /\ cp.last.op = "is_alternative_block_allowed"
  /\ CheckpointsUpTo # {}
  /\ \E k \in DOMAIN cp.m_points : k > cp.last.blockchain_height
  /\ cp.last.ret

StepNames(steps) == [k \in 1..Len(steps) |-> steps[k].step]

\* C30: an invocation of posix::fork that returned took its steps in the order
\* first fork, setsid, second fork, PID-file write, stream redirection; the
\* PID file was written by the process that is left after the second fork and
\* with that process's id; the caller and the process of the first fork each
\* exited with status 0 and wrote nothing.
C30_ForkOrder ==
  \A i \in DOMAIN px.inv :
    px.inv[i].pc = "done"
      => LET me == px.inv[i]
             s == me.steps
             w == 5
         IN /\ StepNames(s) = IF px.use_pidfile
                              THEN <<"handle_existing_pid", "fork", "setsid", "fork",
                                     "write_pid_to_file", "redirect_streams">>
                              ELSE <<"handle_existing_pid", "fork", "setsid", "fork",
                                     "redirect_streams">>
            /\ s[2].pid = me.original /\ s[3].pid = s[2].value /\ s[4].pid = s[2].value
            /\ me.pid = s[4].value
            /\ s[Len(s)].pid = me.pid
            /\ px.use_pidfile => s[w].pid = me.pid /\ s[w].value = me.pid
            /\ me.exited = <<[pid |-> me.original, status |-> 0],
                             [pid |-> s[2].value, status |-> 0]>>
            /\ \A k \in 1..Len(s) :
                 s[k].step = "write_pid_to_file" => s[k].pid \notin {me.original, s[2].value}

C30_Witness ==
  \E i \in DOMAIN px.inv :
    /\ px.inv[i].pc = "done"
    /\ px.use_pidfile
    /\ px.pidfile = [exists |-> TRUE, content |-> px.inv[i].pid]
    /\ Len(px.inv[i].exited) = 2

\* the invocation found, at its PID-file check, the id of a running process
\* greater than 1 in the PID file
HeldRunningPid(me) == me.steps # <<>> /\ me.steps[1].value # 0

\* posix::fork threw out of handle_existing_pid: no fork() was made, no process
\* exited, the caller is the process that goes on, and the invocation wrote
\* nothing to the PID file
ThrewBeforeFork(me) ==
  /\ me.pc = "threw"
  /\ StepNames(me.steps) = <<"handle_existing_pid">>
  /\ me.exited = <<>>
  /\ me.pid = me.original
  /\ me.original \in px.running

\* C31: an invocation whose PID file holds, at the check, the id (> 1) of a
\* running process throws before any fork(): no child process, the caller
\* not exited, the PID file not rewritten by it.
C31_RunningPidStopsFork ==
  \A i \in DOMAIN px.inv : HeldRunningPid(px.inv[i]) => ThrewBeforeFork(px.inv[i])

\* C31 for the invocations that could open the PID file for reading and were
\* allowed to signal the process it names
C31_SeenRunningPidStopsFork ==
  \A i \in DOMAIN px.inv :
    (HeldRunningPid(px.inv[i]) /\ ~px.inv[i].blind) => ThrewBeforeFork(px.inv[i])

C31_WitnessSeen ==
  \E i \in DOMAIN px.inv :
    /\ HeldRunningPid(px.inv[i])
    /\ ~px.inv[i].blind
    /\ ThrewBeforeFork(px.inv[i])
    /\ px.pidfile.content = px.inv[i].steps[1].value

\* the invocations whose posix::fork returned: their last process is a daemon
Daemons == {i \in DOMAIN px.inv : px.inv[i].pc = "done" /\ px.inv[i].pid \in px.running}

\* C32: of the invocations of posix::fork started together on one PID file,
\* at most one completes as a daemon.
C32_AtMostOneDaemon ==
  px.use_pidfile => Cardinality(Daemons) <= 1

\* C32 when every invocation could open the PID file for reading and was
\* allowed to signal the process it names
C32_AtMostOneDaemonAllSeen ==
  (px.use_pidfile /\ \A i \in DOMAIN px.inv : ~px.inv[i].blind)
    => Cardinality(Daemons) <= 1

====
